---- MODULE Spec2Model ----
(***************************************************************************)
(* Model of src/app.py: a Flask relay with three POST handlers             *)
(* (send_message, send_photo, send_document) that validate a JSON body,    *)
(* resolve a bot token and forward the remaining fields to the Telegram    *)
(* API through send_telegram_request.                                      *)
(*                                                                         *)
(* Python values are modelled as follows.                                  *)
(*   - a dict is a function from its keys (strings) to strings;            *)
(*   - a decoded request body is a tagged record: null, num, list or obj;  *)
(*   - an optional string (os.getenv, dict.pop with a default) is a tuple: *)
(*     <<>> is None and <<s>> is the string s;                             *)
(*   - a piece of HTTP body text is a record: either plain text or the     *)
(*     text of a JSON object given by its members in textual order.        *)
(* The three handlers have the same body up to the method name and the     *)
(* second required field, so one set of actions, indexed by the operation, *)
(* models all three.                                                       *)
(***************************************************************************)
EXTENDS Integers, Sequences, FiniteSets, TLC

VARIABLES
    DEFAULT_BOT_TOKEN,  \* module global, app.py:30
    startup_token,      \* value DEFAULT_BOT_TOKEN had after import (history)
    flaskNonJsonPolicy,       \* build: what request.json does on a non-JSON mimetype
    requestsJsonErrorWrapped, \* build: Response.json() raises a RequestException (requests >= 2.27)
    pc,          \* per request: position of its handler
    op,          \* per request: the route it arrived on
    body,        \* per request: the incoming HTTP body, never modified
    data,        \* per request: the local `data` of the handler
    bot_token,   \* per request: the local `bot_token` of the handler
    sent,        \* per request: the outbound requests.post calls made so far
    answer,      \* per request: what the provider did with the call
    fwd,         \* per request: how send_telegram_request ended
    resp         \* per request: the HTTP response of the handler

vars == <<DEFAULT_BOT_TOKEN, startup_token, flaskNonJsonPolicy,
          requestsJsonErrorWrapped, pc, op, body, data, bot_token, sent,
          answer, fwd, resp>>

----------------------------------------------------------------------------
(* Bounds and program constants *)

\* Number of requests handled concurrently in SpecConc.
NumReq == 2

\* timeout=10 of requests.post
Timeout == 10

Req == 1..NumReq

----------------------------------------------------------------------------
(* Optional strings *)

None == <<>>

Some(s) == <<s>>

\* A guard that rejects None only (`if bot_token is None`).
TruthyTokenNotNone(t) == t # None

\* Python truthiness of an optional string: None and "" are falsy.
TruthyToken(t) == t # None /\ t[1] # ""

----------------------------------------------------------------------------
(* HTTP body text and JSON *)

PlainText(s) == [json |-> FALSE, plain |-> s, members |-> <<>>]

ObjText(ms) == [json |-> TRUE, plain |-> "", members |-> ms]

\* The characters of a body text (Response.text).
RECURSIVE RenderMembers(_)
RenderMembers(ms) ==
    IF ms = <<>> THEN ""
    ELSE "\"" \o ms[1][1] \o "\":" \o ms[1][2]
         \o (IF Len(ms) > 1 THEN "," ELSE "") \o RenderMembers(Tail(ms))

RawText(t) == IF t.json THEN "{" \o RenderMembers(t.members) \o "}" ELSE t.plain

\* json.loads on the text of an object: a dict, later members overwrite
\* earlier ones of the same name.
RECURSIVE Loads(_)
Loads(ms) ==
    IF ms = <<>> THEN <<>>
    ELSE LET n == Len(ms)
             front == Loads(SubSeq(ms, 1, n - 1))
         IN  [k \in DOMAIN front \cup {ms[n][1]} |->
                 IF k = ms[n][1] THEN ms[n][2] ELSE front[k]]

\* Alphabetical order of every key that reaches jsonify.
KeyOrder == <<"description", "error", "ok", "result">>

InDict(k, d) == k \in DOMAIN d

\* A jsonify that loses the last key of the dict.
JsonifyDropping(d) ==
    LET keys == SelectSeq(KeyOrder, LAMBDA k : InDict(k, d))
    IN  ObjText([i \in 1..(IF Len(keys) = 0 THEN 0 ELSE Len(keys) - 1) |->
                    <<keys[i], d[keys[i]]>>])

\* flask.jsonify of a dict: the JSON text of the dict, keys sorted.
Jsonify(d) ==
    LET keys == SelectSeq(KeyOrder, LAMBDA k : InDict(k, d))
    IN  ObjText([i \in 1..Len(keys) |-> <<keys[i], d[keys[i]]>>])

ErrorDict(msg) == [k \in {"error"} |-> msg]

----------------------------------------------------------------------------
(* Incoming request bodies *)

JNull == [t |-> "null"]

JNum(n) == [t |-> "num", n |-> n]

JList(xs) == [t |-> "list", items |-> xs]

JObj(d) == [t |-> "obj", m |-> d]

\* A local that has not been assigned yet.
Unset == [t |-> "unset"]

\* A request that does not announce JSON (no body, or another mimetype).
AbsentBody == [kind |-> "absent", val |-> JNull]

\* A request that announces JSON with a body json.loads rejects (this
\* includes a zero-length body).
MalformedBody == [kind |-> "malformed", val |-> JNull]

JsonBody(v) == [kind |-> "json", val |-> v]

\* What request.json does when the mimetype is not JSON, by Flask/Werkzeug
\* version: returns None (before 2.1), raises 400 Bad Request (2.1, 2.2),
\* raises 415 Unsupported Media Type (2.3 and later).
NonJsonPolicies == {"none", "BadRequest", "UnsupportedMediaType"}

\* flask's request.json (get_json(force=False, silent=False)):
\*   - mimetype not JSON: by policy, None or an HTTPException;
\*   - body not parseable: on_json_loading_failed raises 400 Bad Request;
\*   - otherwise the decoded value (JSON null decodes to None).
RequestJson(b, policy) ==
    CASE b.kind = "absent" ->
            IF policy = "none" THEN [exc |-> "", val |-> JNull]
            ELSE [exc |-> policy, val |-> JNull]
      [] b.kind = "malformed" -> [exc |-> "BadRequest", val |-> JNull]
      [] OTHER -> [exc |-> "", val |-> b.val]

\* bool(data) as in `if not data`.
Truthy(v) ==
    CASE v.t = "null" -> FALSE
      [] v.t = "num" -> v.n # 0
      [] v.t = "list" -> v.items # <<>>
      [] v.t = "obj" -> DOMAIN v.m # {}
      [] OTHER -> FALSE

\* `key in data` raises TypeError when data is a number.
ContainsRaises(v) == v.t = "num"

\* `key in data` for a dict (a key) and a list (an element).
Contains(k, v) ==
    CASE v.t = "obj" -> k \in DOMAIN v.m
      [] v.t = "list" -> \E i \in 1..Len(v.items) : v.items[i] = k
      [] OTHER -> FALSE

\* data.pop(key, default) raises TypeError unless data is a dict.
PopRaises(v) == v.t # "obj"

\* dict.get in place of dict.pop: the key stays in the dict.
PopKeeping(d, k, default) ==
    [value |-> IF k \in DOMAIN d THEN Some(d[k]) ELSE default, rest |-> d]

\* dict.pop(key, default): the value (or the default) and the dict without
\* the key.
Pop(d, k, default) ==
    [value |-> IF k \in DOMAIN d THEN Some(d[k]) ELSE default,
     rest |-> [x \in DOMAIN d \ {k} |-> d[x]]]

----------------------------------------------------------------------------
(* The routes *)

Ops == {"sendMessage", "sendPhoto", "sendDocument"}

\* The second field each handler requires.
RequiredField(o) ==
    CASE o = "sendMessage" -> "text"
      [] o = "sendPhoto" -> "photo"
      [] OTHER -> "document"

\* The two checks in the opposite order.
RequiredFieldsSwapped(o) == <<RequiredField(o), "chat_id">>

\* The fields each handler checks, in the order of its `if` statements.
RequiredFields(o) == <<"chat_id", RequiredField(o)>>

\* The first field of fs that data does not contain, or "" when none.
RECURSIVE FirstMissing(_, _)
FirstMissing(fs, v) ==
    IF fs = <<>> THEN ""
    ELSE IF ~Contains(Head(fs), v) THEN Head(fs)
    ELSE FirstMissing(Tail(fs), v)

----------------------------------------------------------------------------
(* Responses *)

Response(status, text) == [status |-> status, body |-> text]

NoResponse == Response(0, PlainText(""))

NoDataResponse == Response(400, Jsonify(ErrorDict("No data provided")))

MissingFieldResponse(f) ==
    Response(400, Jsonify(ErrorDict("Missing required field: " \o f)))

NoTokenMessage ==
    "No bot token provided and TELEGRAM_BOT_TOKEN environment variable not set"

NoTokenResponse == Response(400, Jsonify(ErrorDict(NoTokenMessage)))

\* An exception no handler catches reaches @app.errorhandler(500).
InternalServerErrorResponse ==
    Response(500, Jsonify(ErrorDict("Internal server error")))

\* werkzeug's own page for an HTTPException: no errorhandler is registered
\* for 400 or 415, so the response is the exception's HTML page.
HttpExceptionResponse(exc) ==
    IF exc = "BadRequest"
    THEN Response(400, PlainText("<!doctype html><title>400 Bad Request</title>"))
    ELSE Response(415, PlainText("<!doctype html><title>415 Unsupported Media Type</title>"))

----------------------------------------------------------------------------
(* send_telegram_request *)

\* What requests.post met. A transport failure carries no response; an
\* HTTP answer is the final response, with its status and body text.
TransportFailure(kind, reason) ==
    [kind |-> kind, status |-> 0, body |-> PlainText(""), reason |-> reason]

HttpAnswer(status, text) ==
    [kind |-> "http", status |-> status, body |-> text, reason |-> ""]

NoAnswer == [kind |-> "none", status |-> 0, body |-> PlainText(""), reason |-> ""]

TelegramUrl(method, token) ==
    "https://api.telegram.org/bot" \o token \o "/" \o method

\* requests.post(url, json=params, timeout=10), with the arguments of
\* send_telegram_request it was built from.
OutboundCall(method, token, params) ==
    [method |-> method, token |-> token, url |-> TelegramUrl(method, token),
     json |-> params, timeout |-> Timeout]

\* A raise_for_status that raises for 5XX only.
RaiseForStatusServerOnly(status) == 500 <= status /\ status < 600

\* Response.raise_for_status raises HTTPError for 4XX and 5XX.
RaiseForStatus(status) == 400 <= status /\ status < 600

\* str() of the decoder's error for a body that is not JSON.
JsonErrorText == "Expecting value: line 1 column 1 (char 0)"

Returned(d) == [raised |-> FALSE, exc |-> "", msg |-> "", value |-> d]

Raised(exc, msg) == [raised |-> TRUE, exc |-> exc, msg |-> msg, value |-> <<>>]

NotCalled == [raised |-> FALSE, exc |-> "none", msg |-> "", value |-> <<>>]

\* How send_telegram_request ends, given what requests.post met.
\*   - transport failure: a RequestException without response, re-raised as
\*     Exception("Request to Telegram API failed: ...");
\*   - 4XX/5XX: HTTPError with the response, re-raised as
\*     Exception("Telegram API error (<status>): <text>");
\*   - otherwise response.json(): the dict, or the decoder's error. That
\*     error is a RequestException (caught, no response attached) in
\*     requests >= 2.27 and a plain ValueError (not caught here) before.
ForwarderOutcome(ans, wrapped) ==
    IF ans.kind # "http"
    THEN Raised("Exception", "Request to Telegram API failed: " \o ans.reason)
    ELSE IF RaiseForStatus(ans.status)
    THEN Raised("Exception",
                "Telegram API error (" \o ToString(ans.status) \o "): "
                    \o RawText(ans.body))
    ELSE IF ans.body.json THEN Returned(Loads(ans.body.members))
    ELSE IF wrapped
    THEN Raised("Exception", "Request to Telegram API failed: " \o JsonErrorText)
    ELSE Raised("ValueError", JsonErrorText)

\* The try/except of the handler around send_telegram_request: the dict as
\* JSON with status 200, or str(e) of any Exception with status 500.
HandlerRespond(outcome) ==
    IF outcome.raised THEN Response(500, Jsonify(ErrorDict(outcome.msg)))
    ELSE Response(200, Jsonify(outcome.value))

----------------------------------------------------------------------------
(* Inputs *)

FieldValue(k) ==
    CASE k = "chat_id" -> "42"
      [] k = "text" -> "hi"
      [] k = "photo" -> "https://example.com/image.jpg"
      [] k = "document" -> "https://example.com/file.pdf"
      [] OTHER -> "HTML"

PayloadKeys == {"chat_id", "text", "photo", "document"}

\* The dicts over the payload keys, without and with a bot_token ("" or a
\* token).
Dicts ==
    LET plain == {[k \in K |-> FieldValue(k)] : K \in SUBSET PayloadKeys}
        WithToken(d, tok) ==
            [k \in DOMAIN d \cup {"bot_token"} |->
                IF k = "bot_token" THEN tok ELSE d[k]]
    IN  plain \cup {WithToken(d, tok) : d \in plain, tok \in {"", "BODY-TOKEN"}}

Bodies ==
    {AbsentBody, MalformedBody}
        \cup {JsonBody(v) : v \in {JNull, JNum(0), JNum(5), JList(<<>>),
                                   JList(<<"chat_id">>),
                                   JList(<<"chat_id", "text">>)}}
        \cup {JsonBody(JObj(d)) : d \in Dicts}

Inputs == Ops \X Bodies

\* os.getenv('TELEGRAM_BOT_TOKEN'): unset, set to "", or set to a token.
Defaults == {None, Some(""), Some("ENV-TOKEN")}

ProviderTexts ==
    {ObjText(<< <<"ok", "true">>, <<"result", "{\"message_id\":7}">> >>),
     ObjText(<< <<"result", "{\"message_id\":7}">>, <<"ok", "true">> >>),
     ObjText(<< <<"ok", "false">>,
                <<"description", "\"Bad Request: chat not found\"">> >>),
     PlainText("Bad Request: chat not found"),
     PlainText("")}

ProviderStatuses == {200, 201, 300, 400, 404, 500}

Answers ==
    {TransportFailure("timeout", "Read timed out. (read timeout=10)"),
     TransportFailure("connection", "Connection refused")}
        \cup {HttpAnswer(st, t) : st \in ProviderStatuses, t \in ProviderTexts}

\* The inputs and answers of the concurrent specification.
ConcInputs ==
    {<<"sendMessage", JsonBody(JObj([k \in {"chat_id", "text"} |-> FieldValue(k)]))>>,
     <<"sendPhoto", JsonBody(JObj([k \in {"chat_id", "photo", "bot_token"} |->
            IF k = "bot_token" THEN "BODY-TOKEN" ELSE FieldValue(k)]))>>,
     <<"sendPhoto", JsonBody(JObj([k \in {"chat_id", "photo", "bot_token"} |->
            IF k = "bot_token" THEN "" ELSE FieldValue(k)]))>>,
     <<"sendDocument", JsonBody(JObj([k \in {"chat_id"} |-> FieldValue(k)]))>>,
     <<"sendDocument", JsonBody(JList(<<"chat_id", "document">>))>>,
     <<"sendDocument", AbsentBody>>,
     <<"sendMessage", MalformedBody>>}

ConcAnswers ==
    {TransportFailure("timeout", "Read timed out. (read timeout=10)"),
     HttpAnswer(200, ObjText(<< <<"ok", "true">> >>)),
     HttpAnswer(200, PlainText("")),
     HttpAnswer(400, PlainText("Bad Request: chat not found"))}

----------------------------------------------------------------------------
(* State machine *)

globals == <<DEFAULT_BOT_TOKEN, startup_token, flaskNonJsonPolicy,
             requestsJsonErrorWrapped>>

Init ==
    /\ DEFAULT_BOT_TOKEN \in Defaults
    /\ startup_token = DEFAULT_BOT_TOKEN
    /\ flaskNonJsonPolicy \in NonJsonPolicies
    /\ requestsJsonErrorWrapped \in BOOLEAN
    /\ pc = [r \in Req |-> "idle"]
    /\ op = [r \in Req |-> "sendMessage"]
    /\ body = [r \in Req |-> AbsentBody]
    /\ data = [r \in Req |-> Unset]
    /\ bot_token = [r \in Req |-> None]
    /\ sent = [r \in Req |-> <<>>]
    /\ answer = [r \in Req |-> NoAnswer]
    /\ fwd = [r \in Req |-> NotCalled]
    /\ resp = [r \in Req |-> NoResponse]

\* A POST arrives on one of the three routes.
Receive(r, inputs) ==
    /\ pc[r] = "idle"
    /\ \E in \in inputs :
        /\ op' = [op EXCEPT ![r] = in[1]]
        /\ body' = [body EXCEPT ![r] = in[2]]
    /\ pc' = [pc EXCEPT ![r] = "parse"]
    /\ UNCHANGED <<globals, data, bot_token, sent, answer, fwd, resp>>

\* data = request.json; if not data: 400.
Parse(r) ==
    /\ pc[r] = "parse"
    /\ LET rj == RequestJson(body[r], flaskNonJsonPolicy)
       IN  IF rj.exc # ""
           THEN /\ resp' = [resp EXCEPT ![r] = HttpExceptionResponse(rj.exc)]
                /\ pc' = [pc EXCEPT ![r] = "done"]
                /\ UNCHANGED data
           ELSE /\ data' = [data EXCEPT ![r] = rj.val]
                /\ IF ~Truthy(rj.val)
                   THEN /\ resp' = [resp EXCEPT ![r] = NoDataResponse]
                        /\ pc' = [pc EXCEPT ![r] = "done"]
                   ELSE /\ pc' = [pc EXCEPT ![r] = "validate"]
                        /\ UNCHANGED resp
    /\ UNCHANGED <<globals, op, body, bot_token, sent, answer, fwd>>

\* The two `if <field> not in data` checks.
Validate(r) ==
    /\ pc[r] = "validate"
    /\ IF ContainsRaises(data[r])
       THEN /\ resp' = [resp EXCEPT ![r] = InternalServerErrorResponse]
            /\ pc' = [pc EXCEPT ![r] = "done"]
       ELSE LET missing == FirstMissing(RequiredFields(op[r]), data[r])
            IN  IF missing # ""
                THEN /\ resp' = [resp EXCEPT ![r] = MissingFieldResponse(missing)]
                     /\ pc' = [pc EXCEPT ![r] = "done"]
                ELSE /\ pc' = [pc EXCEPT ![r] = "resolve"]
                     /\ UNCHANGED resp
    /\ UNCHANGED <<globals, op, body, data, bot_token, sent, answer, fwd>>

\* A resolution that also stores the token it found in the module global.
ResolveCaching(r) ==
    /\ pc[r] = "resolve"
    /\ IF PopRaises(data[r])
       THEN /\ resp' = [resp EXCEPT ![r] = InternalServerErrorResponse]
            /\ pc' = [pc EXCEPT ![r] = "done"]
            /\ UNCHANGED <<data, bot_token, DEFAULT_BOT_TOKEN>>
       ELSE LET popped == Pop(data[r].m, "bot_token", DEFAULT_BOT_TOKEN)
            IN  /\ data' = [data EXCEPT ![r] = JObj(popped.rest)]
                /\ bot_token' = [bot_token EXCEPT ![r] = popped.value]
                /\ DEFAULT_BOT_TOKEN' = popped.value
                /\ IF ~TruthyToken(popped.value)
                   THEN /\ resp' = [resp EXCEPT ![r] = NoTokenResponse]
                        /\ pc' = [pc EXCEPT ![r] = "done"]
                   ELSE /\ pc' = [pc EXCEPT ![r] = "dispatch"]
                        /\ UNCHANGED resp
    /\ UNCHANGED <<startup_token, flaskNonJsonPolicy, requestsJsonErrorWrapped,
                   op, body, sent, answer, fwd>>

\* bot_token = data.pop('bot_token', DEFAULT_BOT_TOKEN); if not bot_token: 400.
Resolve(r) ==
    /\ pc[r] = "resolve"
    /\ IF PopRaises(data[r])
       THEN /\ resp' = [resp EXCEPT ![r] = InternalServerErrorResponse]
            /\ pc' = [pc EXCEPT ![r] = "done"]
            /\ UNCHANGED <<data, bot_token>>
       ELSE LET popped == Pop(data[r].m, "bot_token", DEFAULT_BOT_TOKEN)
            IN  /\ data' = [data EXCEPT ![r] = JObj(popped.rest)]
                /\ bot_token' = [bot_token EXCEPT ![r] = popped.value]
                /\ IF ~TruthyToken(popped.value)
                   THEN /\ resp' = [resp EXCEPT ![r] = NoTokenResponse]
                        /\ pc' = [pc EXCEPT ![r] = "done"]
                   ELSE /\ pc' = [pc EXCEPT ![r] = "dispatch"]
                        /\ UNCHANGED resp
    /\ UNCHANGED <<globals, op, body, sent, answer, fwd>>

\* send_telegram_request(<method>, bot_token, data) up to requests.post:
\* the outbound call leaves.
Post(r) ==
    /\ pc[r] = "dispatch"
    /\ sent' = [sent EXCEPT ![r] =
                   Append(@, OutboundCall(op[r], bot_token[r][1], data[r].m))]
    /\ pc' = [pc EXCEPT ![r] = "await"]
    /\ UNCHANGED <<globals, op, body, data, bot_token, answer, fwd, resp>>

\* The provider answers, or the transport fails, within the timeout.
ProviderReply(r, answers) ==
    /\ pc[r] = "await"
    /\ \E a \in answers : answer' = [answer EXCEPT ![r] = a]
    /\ pc' = [pc EXCEPT ![r] = "complete"]
    /\ UNCHANGED <<globals, op, body, data, bot_token, sent, fwd, resp>>

\* A completion that posts once more after a transport failure.
CompleteRetrying(r) ==
    /\ pc[r] = "complete"
    /\ IF answer[r].kind # "http" /\ Len(sent[r]) < 2
       THEN /\ pc' = [pc EXCEPT ![r] = "dispatch"]
            /\ UNCHANGED <<fwd, resp>>
       ELSE LET outcome == ForwarderOutcome(answer[r], requestsJsonErrorWrapped)
            IN  /\ fwd' = [fwd EXCEPT ![r] = outcome]
                /\ resp' = [resp EXCEPT ![r] = HandlerRespond(outcome)]
                /\ pc' = [pc EXCEPT ![r] = "done"]
    /\ UNCHANGED <<globals, op, body, data, bot_token, sent, answer>>

\* The rest of send_telegram_request and the handler's return.
Complete(r) ==
    /\ pc[r] = "complete"
    /\ LET outcome == ForwarderOutcome(answer[r], requestsJsonErrorWrapped)
       IN  /\ fwd' = [fwd EXCEPT ![r] = outcome]
           /\ resp' = [resp EXCEPT ![r] = HandlerRespond(outcome)]
           /\ pc' = [pc EXCEPT ![r] = "done"]
    /\ UNCHANGED <<globals, op, body, data, bot_token, sent, answer>>

\* One request at a time, over every input.
Next ==
    \/ Receive(1, Inputs)
    \/ Parse(1)
    \/ Validate(1)
    \/ Resolve(1)
    \/ Post(1)
    \/ ProviderReply(1, Answers)
    \/ Complete(1)

Spec == Init /\ [][Next]_vars

\* NumReq requests handled in parallel, their steps interleaved.
NextConc ==
    \E r \in Req :
        \/ Receive(r, ConcInputs)
        \/ Parse(r)
        \/ Validate(r)
        \/ Resolve(r)
        \/ Post(r)
        \/ ProviderReply(r, ConcAnswers)
        \/ Complete(r)

SpecConc == Init /\ [][NextConc]_vars

----------------------------------------------------------------------------
(* A handler run from its first line to its return, as one function *)

Result(response, calls) == [resp |-> response, sent |-> calls]

\* The handler of route o on body b when nothing else runs: default is the
\* module global, policy and wrapped are the build, ans is what the
\* provider does with the call if one is made.
Handle(o, b, default, policy, wrapped, ans) ==
    LET rj == RequestJson(b, policy)
    IN  IF rj.exc # "" THEN Result(HttpExceptionResponse(rj.exc), <<>>)
        ELSE IF ~Truthy(rj.val) THEN Result(NoDataResponse, <<>>)
        ELSE IF ContainsRaises(rj.val) THEN Result(InternalServerErrorResponse, <<>>)
        ELSE IF FirstMissing(RequiredFields(o), rj.val) # ""
        THEN Result(MissingFieldResponse(FirstMissing(RequiredFields(o), rj.val)), <<>>)
        ELSE IF PopRaises(rj.val) THEN Result(InternalServerErrorResponse, <<>>)
        ELSE LET popped == Pop(rj.val.m, "bot_token", default)
             IN  IF ~TruthyToken(popped.value) THEN Result(NoTokenResponse, <<>>)
                 ELSE Result(HandlerRespond(ForwarderOutcome(ans, wrapped)),
                             <<OutboundCall(o, popped.value[1], popped.rest)>>)

----------------------------------------------------------------------------
(* Vocabulary of the properties *)

Done(r) == pc[r] = "done"

\* The JSON text {"error": "<msg>"}.
ErrorEnvelope(msg) == ObjText(<< <<"error", msg>> >>)

\* The value of the text of a JSON object with distinct names: its set of
\* name/value members.
MemberSet(t) == {t.members[i] : i \in DOMAIN t.members}

SameJsonObject(t1, t2) ==
    /\ t1.json /\ t2.json
    /\ Len(t1.members) = Len(t2.members)
    /\ MemberSet(t1) = MemberSet(t2)

SuccessStatus(st) == 200 <= st /\ st <= 299

\* Required fields by operation, in check order, as the interface documents
\* them.
DeclaredFields ==
    [sendMessage |-> <<"chat_id", "text">>,
     sendPhoto |-> <<"chat_id", "photo">>,
     sendDocument |-> <<"chat_id", "document">>]

IsObject(b) == b.kind = "json" /\ b.val.t = "obj"

HasField(b, k) == IsObject(b) /\ k \in DOMAIN b.val.m

\* The first declared field of o that body b lacks ("" when it has both).
FirstLacking(o, b) ==
    IF ~HasField(b, DeclaredFields[o][1]) THEN DeclaredFields[o][1]
    ELSE IF ~HasField(b, DeclaredFields[o][2]) THEN DeclaredFields[o][2]
    ELSE ""

PassesFieldChecks(o, b) == IsObject(b) /\ FirstLacking(o, b) = ""

----------------------------------------------------------------------------
(* Properties *)

\* C1: when the provider answers with a success status and a JSON body R,
\* the handler responds 200 and the JSON value of its body is R: same
\* members, none added, removed or changed.
C1_SuccessPayloadRelayedUnchanged ==
    \A r \in Req :
        (Done(r) /\ answer[r].kind = "http" /\ SuccessStatus(answer[r].status)
            /\ answer[r].body.json)
        => /\ resp[r].status = 200
           /\ SameJsonObject(resp[r].body, answer[r].body)

\* C1 witness: a 201 answer whose members are not in sorted order has been
\* relayed with status 200.
C1_Witness ==
    \E r \in Req :
        /\ Done(r) /\ answer[r].kind = "http" /\ answer[r].status = 201
        /\ answer[r].body.json /\ Len(answer[r].body.members) = 2
        /\ answer[r].body.members[1][1] = "result"
        /\ resp[r].status = 200

\* C2 as stated: every decoded JSON object lacking a required field gets
\* 400 "Missing required field: <first lacking field>".
C2_Original ==
    \A r \in Req :
        (Done(r) /\ IsObject(body[r]) /\ FirstLacking(op[r], body[r]) # "")
        => resp[r] = Response(400, ErrorEnvelope("Missing required field: "
                                        \o FirstLacking(op[r], body[r])))

\* C2 amended: every decoded non-empty JSON object lacking a required field
\* gets 400 "Missing required field: <first lacking field>", whatever other
\* fields (bot_token included) it has.
C2_FirstMissingFieldNamed ==
    \A r \in Req :
        (Done(r) /\ IsObject(body[r]) /\ DOMAIN body[r].val.m # {}
            /\ FirstLacking(op[r], body[r]) # "")
        => resp[r] = Response(400, ErrorEnvelope("Missing required field: "
                                        \o FirstLacking(op[r], body[r])))

\* C2 witness: a sendPhoto body with a bot_token and text but neither
\* chat_id nor photo was answered 400 naming chat_id.
C2_Witness ==
    \E r \in Req :
        /\ Done(r) /\ op[r] = "sendPhoto" /\ IsObject(body[r])
        /\ DOMAIN body[r].val.m = {"bot_token", "text"}
        /\ resp[r] = Response(400, ErrorEnvelope("Missing required field: chat_id"))

\* C3 as stated: a request whose body is empty, absent or not parseable as
\* JSON gets 400 {"error": "No data provided"}.
C3_NoDataForUnusableBody ==
    \A r \in Req :
        (Done(r) /\ (\/ body[r].kind \in {"absent", "malformed"}
                     \/ (IsObject(body[r]) /\ DOMAIN body[r].val.m = {})))
        => resp[r] = Response(400, ErrorEnvelope("No data provided"))

\* C4 as stated: on a body that passes the field checks, the no-credential
\* 400 is given exactly when the body has no credential and no default is
\* configured, and a call that is made carries the body's bot_token if the
\* body has one and the default otherwise.
C4_CredentialResolution ==
    \A r \in Req :
        (Done(r) /\ PassesFieldChecks(op[r], body[r]))
        => LET m == body[r].val.m
               bodyCredential == "bot_token" \in DOMAIN m /\ m["bot_token"] # ""
               defaultExists == startup_token # None /\ startup_token[1] # ""
           IN  /\ (resp[r] = Response(400, ErrorEnvelope(NoTokenMessage)))
                    <=> (~bodyCredential /\ ~defaultExists)
               /\ \A i \in DOMAIN sent[r] :
                    sent[r][i].token = IF "bot_token" \in DOMAIN m
                                       THEN m["bot_token"] ELSE startup_token[1]

\* C5: every Forwarder invocation for a body that carries a bot_token uses
\* exactly that token and parameters equal to the body without the
\* bot_token key; and a request whose body has the required fields and a
\* non-empty bot_token does make that invocation.
C5_BodyCredentialForwardedAndRemoved ==
    \A r \in Req :
        HasField(body[r], "bot_token")
        => LET m == body[r].val.m
           IN  /\ \A i \in DOMAIN sent[r] :
                    /\ sent[r][i].token = m["bot_token"]
                    /\ sent[r][i].method = op[r]
                    /\ sent[r][i].url = "https://api.telegram.org/bot"
                            \o m["bot_token"] \o "/" \o op[r]
                    /\ "bot_token" \notin DOMAIN sent[r][i].json
                    /\ sent[r][i].json = [k \in DOMAIN m \ {"bot_token"} |-> m[k]]
               /\ (Done(r) /\ PassesFieldChecks(op[r], body[r]) /\ m["bot_token"] # "")
                    => Len(sent[r]) = 1

\* C5 witness: with a default configured, a body carrying its own bot_token
\* and an extra field has been forwarded.
C5_Witness ==
    \E r \in Req :
        /\ startup_token = Some("ENV-TOKEN")
        /\ IsObject(body[r])
        /\ DOMAIN body[r].val.m = {"bot_token", "chat_id", "document", "text"}
        /\ op[r] = "sendDocument"
        /\ Len(sent[r]) = 1
        /\ sent[r][1].token = "BODY-TOKEN"

\* C6 as stated: every answer with a status outside the success range
\* 200..299 makes the Forwarder raise the error with status and raw body,
\* and the handler respond 500 with it.
C6_Original ==
    \A r \in Req :
        (Done(r) /\ answer[r].kind = "http" /\ ~SuccessStatus(answer[r].status))
        => LET msg == "Telegram API error (" \o ToString(answer[r].status)
                        \o "): " \o RawText(answer[r].body)
           IN  /\ fwd[r].raised /\ fwd[r].msg = msg
               /\ resp[r] = Response(500, ErrorEnvelope(msg))

\* C6 amended: every answer with a 4XX or 5XX status makes the Forwarder
\* raise the error with status and raw body (the body is never returned as
\* a success value), and the handler respond 500 with
\* {"error": "Telegram API error (<status>): <body>"}.
C6_ProviderErrorStatusRelayed ==
    \A r \in Req :
        (Done(r) /\ answer[r].kind = "http"
            /\ 400 <= answer[r].status /\ answer[r].status <= 599)
        => LET msg == "Telegram API error (" \o ToString(answer[r].status)
                        \o "): " \o RawText(answer[r].body)
           IN  /\ fwd[r].raised /\ fwd[r].msg = msg
               /\ resp[r] = Response(500, ErrorEnvelope(msg))

\* C6 witness: the answer 400 "Bad Request: chat not found" was relayed as
\* 500 {"error": "Telegram API error (400): Bad Request: chat not found"}.
C6_Witness ==
    \E r \in Req :
        /\ Done(r)
        /\ answer[r] = HttpAnswer(400, PlainText("Bad Request: chat not found"))
        /\ resp[r] = Response(500, ErrorEnvelope(
                "Telegram API error (400): Bad Request: chat not found"))

\* C7: no request makes more than one outbound call, and a request whose
\* call failed at transport level is answered 500 with a message describing
\* the failure after exactly one call.
C7_TransportFailureNoRetry ==
    \A r \in Req :
        /\ Len(sent[r]) <= 1
        /\ (Done(r) /\ answer[r].kind \in {"timeout", "connection"})
            => /\ resp[r] = Response(500, ErrorEnvelope(
                        "Request to Telegram API failed: " \o answer[r].reason))
               /\ Len(sent[r]) = 1

\* C7 witness: a request whose call timed out has been answered.
C7_Witness ==
    \E r \in Req :
        /\ Done(r) /\ answer[r].kind = "timeout"
        /\ resp[r].status = 500 /\ Len(sent[r]) = 1

\* C8 as stated: on a success status with a body that is not JSON the
\* Forwarder raises its own error, as for a transport failure (no parse
\* exception escapes it), and the handler responds 500 with the envelope of
\* that error.
C8_UnparseableSuccessNormalised ==
    \A r \in Req :
        (Done(r) /\ answer[r].kind = "http" /\ SuccessStatus(answer[r].status)
            /\ ~answer[r].body.json)
        => /\ fwd[r].raised /\ fwd[r].exc = "Exception"
           /\ resp[r] = Response(500, ErrorEnvelope(fwd[r].msg))

\* C9: under any interleaving the default credential keeps its startup
\* value, and the response and outbound calls of every finished request are
\* those of the same request handled alone.
C9_RequestsIndependent ==
    /\ DEFAULT_BOT_TOKEN = startup_token
    /\ \A r \in Req :
        Done(r)
        => LET alone == Handle(op[r], body[r], startup_token, flaskNonJsonPolicy,
                               requestsJsonErrorWrapped, answer[r])
           IN  resp[r] = alone.resp /\ sent[r] = alone.sent

\* C9 witness: a request that carried its own token finished while another
\* request, relying on the default, was past credential resolution and
\* waiting for the provider.
C9_Witness ==
    \E r1, r2 \in Req :
        /\ r1 # r2
        /\ Done(r1) /\ HasField(body[r1], "bot_token") /\ Len(sent[r1]) = 1
        /\ pc[r2] = "await" /\ ~HasField(body[r2], "bot_token")

\* C10: every Forwarder invocation carries a non-empty credential and
\* parameters holding both required fields of the operation, a handler
\* about to dispatch has passed parse, field check and resolution, and a
\* request answered 400 has made no outbound call.
C10_DispatchGuard ==
    \A r \in Req :
        /\ \A i \in DOMAIN sent[r] :
            /\ sent[r][i].token # ""
            /\ DeclaredFields[op[r]][1] \in DOMAIN sent[r][i].json
            /\ DeclaredFields[op[r]][2] \in DOMAIN sent[r][i].json
        /\ pc[r] = "dispatch"
            => /\ data[r].t = "obj"
               /\ bot_token[r] # None /\ bot_token[r][1] # ""
               /\ PassesFieldChecks(op[r], body[r])
        /\ (Done(r) /\ resp[r].status = 400) => sent[r] = <<>>

\* C10 witness: a request without a bot_token of its own was forwarded with
\* the default credential and both required fields, and answered 200.
C10_Witness ==
    \E r \in Req :
        /\ Len(sent[r]) = 1 /\ sent[r][1].token = "ENV-TOKEN"
        /\ DOMAIN sent[r][1].json = {"chat_id", "photo"} /\ op[r] = "sendPhoto"
        /\ Done(r) /\ resp[r].status = 200

====
